---- MODULE Spec2Model ----
(***************************************************************************)
(* EventManager of cmt/events/manager.py as a state machine.               *)
(*                                                                         *)
(* The program is single threaded, but every event operation is a callback *)
(* that may return, raise, or call back into the manager.  The model keeps *)
(* the Python call stack explicitly: one frame per active manager method   *)
(* and one per active event operation.  An exception in flight is the      *)
(* variable exc; it unwinds one frame per step.                            *)
(*                                                                         *)
(* The Timeline class (cmt/timeline.py) is not part of the sources at      *)
(* hand; its three operations are modelled from the specification text.    *)
(***************************************************************************)
EXTENDS Naturals, Sequences, FiniteSets

\* ------------------------------------------------------------------ bounds
MaxInit == 2        \* longest registration list handed to the constructor
MaxEvents == MaxInit + 1   \* longest list add_recurring_event builds
MaxChoices == 4     \* choices of the environment in one history: manager calls
                    \* (by the client or from inside an event) and event errors
MaxTime == 2        \* largest stop_time handed to run

\* The events a client registers: what each exposes, and its interval.
Events == {[kind |-> "run", interval |-> 2],
           [kind |-> "update", interval |-> 1],
           [kind |-> "both", interval |-> 1]}
\* The events a client adds later with add_recurring_event.
AddedEvents == {[kind |-> "both", interval |-> 1]}
StopTimes == 1..MaxTime
Errors == {"Exception", "AttributeError"}

HasRun(kind) == kind \in {"run", "both"}
HasUpdate(kind) == kind \in {"update", "both"}

RECURSIVE SeqsUpTo(_, _)
SeqsUpTo(S, n) ==
    IF n = 0 THEN {<<>>}
    ELSE LET shorter == SeqsUpTo(S, n - 1)
         IN  shorter \cup {Append(s, x) : s \in {t \in shorter : Len(t) = n - 1}, x \in S}

Ident(n) == [k \in 1..n |-> k]
Reverse(s) == [k \in 1..Len(s) |-> s[Len(s) + 1 - k]]
NoDup(s) == \A a, b \in 1..Len(s) : s[a] = s[b] => a = b

\* ------------------------------------------------------------------- state
VARIABLES
    order,          \* self._order: the registration list, entries [kind, interval]
    initializing,   \* self._initializing
    initialized,    \* self._initialized
    running,        \* self._running
    finalizing,     \* self._finalizing
    time,           \* Timeline: the clock
    next,           \* Timeline: next fire time of each tracked event, by position
    stack,          \* the call stack, innermost frame last
    exc,            \* the exception in flight, or "none"
    initLog,        \* history: positions whose initialize was invoked, in call order
    finLog,         \* history: positions whose finalize was invoked, in call order
    dueLog,         \* history: occurrences the timeline produced, [i, t]
    runLog,         \* history: run/update calls made by run(), [occ, i, meth, t]
    calls,          \* history: the manager calls made so far, [op, depth]
    initPass,       \* history: "none" | "active" | "done" | "failed"
    finPass,        \* history: "none" | "active" | "done" | "failed"
    failedAt,       \* history: position whose initialize aborted the pass, or 0
    raises,         \* history: how many event operations raised
    scope,          \* the client's `with` block: "out", or how it was entered
    regs,           \* history: per position, [pass, time] when it was registered
    ret             \* the manager call that returned in the last step, or NoRet

flags == <<initializing, initialized, running, finalizing>>
timeline == <<time, next>>
logs == <<initLog, finLog, dueLog, runLog>>
passes == <<initPass, finPass, failedAt, raises>>
vars == <<order, flags, timeline, stack, exc, logs, calls, passes, scope, regs, ret>>

NoRet == [op |-> "none"]

Top == stack[Len(stack)]
Pop == SubSeq(stack, 1, Len(stack) - 1)

\* What a call sees when it is made; kept in its frame and handed back in ret.
Snapshot ==
    [nInit |-> Len(initLog), nFin |-> Len(finLog), nRun |-> Len(runLog),
     nDue |-> Len(dueLog), nOrder |-> Len(order), time |-> time,
     initializing |-> initializing, initialized |-> initialized,
     running |-> running, finalizing |-> finalizing,
     initPass |-> initPass, finPass |-> finPass,
     nCalls |-> Len(calls), depth |-> Len(stack), arg |-> 0,
     from |-> IF stack = <<>> THEN "client" ELSE Top.pc]

Frame(op, pc, i, n, stop, pre) ==
    [op |-> op, pc |-> pc, i |-> i, n |-> n, stop |-> stop, pre |-> pre]

EventFrame(meth, i) == Frame("event", meth, i, 0, 0, NoRet)

\* A manager method may be called by the client (empty stack) or from inside an
\* event operation that is running normally.
CanCall ==
    /\ exc = "none"
    /\ Len(calls) + raises < MaxChoices
    /\ stack # <<>> => Top.op = "event"

Called(op) == Append(calls, [op |-> op, depth |-> Len(stack)])

\* The record left by a call that returns: res is "ok" or the error raised.
Returned(op, kind, res, pre) ==
    [op |-> op, kind |-> kind, res |-> res, pre |-> pre]

\* An error that leaves the outermost manager call has reached the client.
ExcAfterPop(e) == IF Len(stack) = 1 THEN "none" ELSE e

\* ---------------------------------------------------------------- Timeline
\* Timeline(events): clock at 0, every event first due one interval later.
Timeline_init(events) == [k \in 1..Len(events) |-> events[k].interval]

\* register_recurring: the interval must be positive, or the call fails with a
\* configuration error.
register_accepts(interval) == interval > 0

\* A registration scheduled from time zero.
register_recurring_from_zero(interval) == Append(next, interval)

\* register_recurring: first fire time relative to the current clock.
register_recurring(interval) == Append(next, time + interval)

\* A selection that breaks ties towards the event registered last.
NextDue_latest_first(stop_time) ==
    LET due == {k \in 1..Len(next) : next[k] <= stop_time}
    IN  IF due = {} THEN 0
        ELSE CHOOSE k \in due :
                \A j \in due : next[k] < next[j] \/ (next[k] = next[j] /\ k >= j)

\* iterate_until: the tracked event with the smallest next fire time <= stop_time,
\* ties broken by registration order; 0 when the sequence is exhausted.
NextDue(stop_time) ==
    LET due == {k \in 1..Len(next) : next[k] <= stop_time}
    IN  IF due = {} THEN 0
        ELSE CHOOSE k \in due :
                \A j \in due : next[k] < next[j] \/ (next[k] = next[j] /\ k <= j)

\* iterate_until, one element: the clock moves to the fire time of event d and
\* the event is rescheduled one interval later.
iter_until_yield(d) ==
    /\ time' = next[d]
    /\ next' = [next EXCEPT ![d] = @ + order[d].interval]

\* -------------------------------------------------------------- initialize
\* __init__, lines 6-13.
Init ==
    /\ order \in SeqsUpTo(Events, MaxInit)
    /\ initializing = FALSE
    /\ initialized = FALSE
    /\ running = FALSE
    /\ finalizing = FALSE
    /\ time = 0
    /\ next = Timeline_init(order)
    /\ stack = <<>>
    /\ exc = "none"
    /\ initLog = <<>>
    /\ finLog = <<>>
    /\ dueLog = <<>>
    /\ runLog = <<>>
    /\ calls = <<>>
    /\ initPass = "none"
    /\ finPass = "none"
    /\ failedAt = 0
    /\ raises = 0
    /\ scope = "out"
    /\ regs = [k \in 1..Len(order) |-> [pass |-> "none", fin |-> "none", time |-> 0]]
    /\ ret = NoRet

\* A guard that reads the initialized flag instead: a finished or failed pass
\* would not block the next one.
initialize_guard_initialized == ~initialized

\* initialize(), line 16: `if not self._initializing`.
initialize_guard == ~initializing

\* A loop that stops one entry short.
initialize_more_short(i) == i < Len(order)

\* initialize(), line 19: the for loop over the live list has an entry left.
initialize_more(i) == i <= Len(order)

\* initialize(), lines 15-17: the guard and the flag.
initialize ==
    /\ CanCall
    /\ calls' = Called("initialize")
    /\ IF ~initialize_guard
       THEN /\ ret' = Returned("initialize", "noop", "ok", Snapshot)
            /\ UNCHANGED <<initializing, stack, initPass>>
       ELSE /\ initializing' = TRUE
            /\ initPass' = "active"
            /\ stack' = Append(stack, Frame("initialize", "loop", 1, 0, 0, Snapshot))
            /\ ret' = NoRet
    /\ UNCHANGED <<order, initialized, running, finalizing, timeline, exc, logs,
                   finPass, failedAt, raises>>
    /\ UNCHANGED <<scope, regs>>

\* initialize(), lines 19-21 and 26: one turn of the loop over the live list.
initialize_loop ==
    /\ stack # <<>> /\ exc = "none"
    /\ Top.op = "initialize" /\ Top.pc = "loop"
    /\ IF initialize_more(Top.i)
       THEN /\ initLog' = Append(initLog, Top.i)
            /\ stack' = Append([stack EXCEPT ![Len(stack)].pc = "call"],
                               EventFrame("initialize", Top.i))
            /\ ret' = NoRet
            /\ UNCHANGED <<initialized, initPass>>
       ELSE /\ initialized' = TRUE
            /\ initPass' = "done"
            /\ stack' = Pop
            /\ ret' = Returned("initialize", "pass", "ok", Top.pre)
            /\ UNCHANGED initLog
    /\ UNCHANGED <<order, initializing, running, finalizing, timeline, exc,
                   finLog, dueLog, runLog, calls, finPass, failedAt, raises>>
    /\ UNCHANGED <<scope, regs>>

\* A handler that also resets the initializing flag, so that a retry runs.
initialize_except_reset ==
    /\ stack # <<>> /\ exc # "none"
    /\ Top.op = "initialize"
    /\ stack' = Pop
    /\ exc' = ExcAfterPop(exc)
    /\ initializing' = FALSE
    /\ initPass' = "failed"
    /\ failedAt' = Top.i
    /\ ret' = Returned("initialize", "pass", exc, Top.pre)
    /\ UNCHANGED <<order, initialized, running, finalizing, timeline, logs, calls,
                   finPass, raises>>
    /\ UNCHANGED <<scope, regs>>

\* initialize(), lines 22-25: report and re-raise.
initialize_except ==
    /\ stack # <<>> /\ exc # "none"
    /\ Top.op = "initialize"
    /\ stack' = Pop
    /\ exc' = ExcAfterPop(exc)
    /\ initPass' = "failed"
    /\ failedAt' = Top.i
    /\ ret' = Returned("initialize", "pass", exc, Top.pre)
    /\ UNCHANGED <<order, flags, timeline, logs, calls, finPass, raises>>
    /\ UNCHANGED <<scope, regs>>

\* ----------------------------------------------------------------------- run
\* run(), lines 32-36 after the iterator produced event d: event.run(time); a
\* missing run attribute raises AttributeError at the call, which line 35 catches.
\* Lines 35-36: event.update(time); a missing update attribute raises
\* AttributeError from inside the handler, which nothing in run() catches.
dispatch_update(d, occ, t) ==
    IF HasUpdate(order[d].kind)
    THEN /\ runLog' = Append(runLog, [occ |-> occ, i |-> d, meth |-> "update", t |-> t])
         /\ stack' = Append([stack EXCEPT ![Len(stack)].pc = "call_update",
                                          ![Len(stack)].i = d],
                            EventFrame("update", d))
         /\ exc' = "none"
    ELSE /\ stack' = [stack EXCEPT ![Len(stack)].pc = "call_update",
                                   ![Len(stack)].i = d]
         /\ exc' = "AttributeError"
         /\ UNCHANGED runLog

dispatch(d, occ, t) ==
    IF HasRun(order[d].kind)
    THEN /\ runLog' = Append(runLog, [occ |-> occ, i |-> d, meth |-> "run", t |-> t])
         /\ stack' = Append([stack EXCEPT ![Len(stack)].pc = "call_run",
                                          ![Len(stack)].i = d],
                            EventFrame("run", d))
         /\ UNCHANGED exc
    ELSE dispatch_update(d, occ, t)

\* A run() without its reentrancy guard.
run_idle_always == TRUE

\* run(), line 30: `if not self._running`.
run_idle == ~running

\* A run that leaves initialization to its caller.
run_initializes_never == FALSE

\* run(), line 29: `self.initialize()`, made by every call.
run_initializes == TRUE

\* run(), lines 28-31 when initialize() at line 29 has nothing to do: the guard on
\* the running flag.  Otherwise line 29 starts the initialize pass and the run
\* frame waits at "init" for it.
run(stop_time) ==
    /\ CanCall
    /\ calls' = Called("run")
    /\ IF ~(run_initializes /\ initialize_guard)
       THEN /\ IF ~run_idle
               THEN /\ ret' = Returned("run", "noop", "ok",
                                       [Snapshot EXCEPT !.arg = stop_time])
                    /\ UNCHANGED <<running, stack>>
               ELSE /\ running' = TRUE
                    /\ stack' = Append(stack,
                                       Frame("run", "loop", 0, 0, stop_time,
                                             [Snapshot EXCEPT !.arg = stop_time]))
                    /\ ret' = NoRet
            /\ UNCHANGED <<initializing, initPass>>
       ELSE /\ initializing' = TRUE
            /\ initPass' = "active"
            /\ stack' = stack \o <<Frame("run", "init", 0, 0, stop_time,
                                         [Snapshot EXCEPT !.arg = stop_time]),
                                   Frame("initialize", "loop", 1, 0, 0, Snapshot)>>
            /\ ret' = NoRet
            /\ UNCHANGED running
    /\ UNCHANGED <<order, initialized, finalizing, timeline, exc, logs,
                   finPass, failedAt, raises>>
    /\ UNCHANGED <<scope, regs>>

\* run(), lines 30-31 once initialize() at line 29 has returned.
run_guard ==
    /\ stack # <<>> /\ exc = "none"
    /\ Top.op = "run" /\ Top.pc = "init"
    /\ IF ~run_idle
       THEN /\ stack' = Pop
            /\ ret' = Returned("run", "noop", "ok", Top.pre)
            /\ UNCHANGED running
       ELSE /\ running' = TRUE
            /\ stack' = [stack EXCEPT ![Len(stack)].pc = "loop"]
            /\ ret' = NoRet
    /\ UNCHANGED <<order, initializing, initialized, finalizing, timeline, exc,
                   logs, calls, passes>>
    /\ UNCHANGED <<scope, regs>>

\* run(), lines 32-34 and 37: the iterator's next element (the clock moves to its
\* fire time and it is rescheduled one interval later) and its dispatch, or the
\* end of the sequence.
run_loop ==
    /\ stack # <<>> /\ exc = "none"
    /\ Top.op = "run" /\ Top.pc = "loop"
    /\ LET d == NextDue(Top.stop)
       IN  IF d = 0
           THEN /\ running' = FALSE
                /\ stack' = Pop
                /\ ret' = Returned("run", "pass", "ok", Top.pre)
                /\ UNCHANGED <<timeline, dueLog, runLog, exc>>
           ELSE /\ iter_until_yield(d)
                /\ dueLog' = Append(dueLog, [i |-> d, t |-> next[d]])
                /\ dispatch(d, Len(dueLog) + 1, next[d])
                /\ ret' = NoRet
                /\ UNCHANGED running
    /\ UNCHANGED <<order, initializing, initialized, finalizing, initLog, finLog,
                   calls, passes>>
    /\ UNCHANGED <<scope, regs>>

\* run(), lines 33-36 with an error in flight: `except AttributeError` around
\* event.run(...) takes every AttributeError that leaves the call; any other
\* error, and any error from update or from initialize() at line 29, leaves run()
\* without reaching line 37.
run_except ==
    /\ stack # <<>> /\ exc # "none"
    /\ Top.op = "run"
    /\ IF Top.pc = "call_run" /\ exc = "AttributeError"
       THEN /\ dispatch_update(Top.i, Len(dueLog), time)
            /\ ret' = NoRet
       ELSE /\ stack' = Pop
            /\ exc' = ExcAfterPop(exc)
            /\ ret' = Returned("run", IF Top.pc = "init" THEN "init" ELSE "pass",
                               exc, Top.pre)
            /\ UNCHANGED runLog
    /\ UNCHANGED <<order, flags, timeline, initLog, finLog, dueLog, calls, passes>>
    /\ UNCHANGED <<scope, regs>>

\* ------------------------------------------------------------------ finalize
\* A walk in registration order.
finalize_walk_forward(n, i) == n + 1 - i

\* finalize(), line 44: `self._order[::-1]`; with i entries of n left to visit,
\* the next one is at position i.
finalize_walk(n, i) == i

\* A guard that reads the initializing flag instead.
finalize_guard_initializing == initializing

\* finalize(), line 40: `if self._initialized`.
finalize_guard == initialized

\* A walk that may be started again.
finalize_idle_always == TRUE

\* finalize(), line 41: `if not self._finalizing`.
finalize_idle == ~finalizing

\* finalize(), lines 39-42 and 46: the two guards; the walk is over a reversed
\* copy of the list as it is now (n entries).
finalize ==
    /\ CanCall
    /\ calls' = Called("finalize")
    /\ IF ~finalize_guard
       THEN /\ ret' = Returned("finalize", "noop", "ok", Snapshot)
            /\ UNCHANGED <<initialized, finalizing, stack, finPass>>
       ELSE IF ~finalize_idle
            THEN /\ initialized' = FALSE
                 /\ ret' = Returned("finalize", "noop", "ok", Snapshot)
                 /\ UNCHANGED <<finalizing, stack, finPass>>
            ELSE /\ finalizing' = TRUE
                 /\ finPass' = "active"
                 /\ stack' = Append(stack, Frame("finalize", "loop", Len(order),
                                                 Len(order), 0, Snapshot))
                 /\ ret' = NoRet
                 /\ UNCHANGED initialized
    /\ UNCHANGED <<order, initializing, running, timeline, exc, logs, initPass,
                   failedAt, raises>>
    /\ UNCHANGED <<scope, regs>>

\* finalize(), lines 44-46: one turn of the reverse walk.
finalize_loop ==
    /\ stack # <<>> /\ exc = "none"
    /\ Top.op = "finalize" /\ Top.pc = "loop"
    /\ IF Top.i >= 1
       THEN /\ finLog' = Append(finLog, finalize_walk(Top.n, Top.i))
            /\ stack' = Append([stack EXCEPT ![Len(stack)].pc = "call"],
                               EventFrame("finalize", finalize_walk(Top.n, Top.i)))
            /\ ret' = NoRet
            /\ UNCHANGED <<initialized, finPass>>
       ELSE /\ initialized' = FALSE
            /\ finPass' = "done"
            /\ stack' = Pop
            /\ ret' = Returned("finalize", "pass", "ok", Top.pre)
            /\ UNCHANGED finLog
    /\ UNCHANGED <<order, initializing, running, finalizing, timeline, exc,
                   initLog, dueLog, runLog, calls, initPass, failedAt, raises>>
    /\ UNCHANGED <<scope, regs>>

\* A finalize() that clears the initialized flag on the way out of a failed walk.
finalize_raise_cleanup ==
    /\ stack # <<>> /\ exc # "none"
    /\ Top.op = "finalize"
    /\ stack' = Pop
    /\ exc' = ExcAfterPop(exc)
    /\ initialized' = FALSE
    /\ finPass' = "failed"
    /\ ret' = Returned("finalize", "pass", exc, Top.pre)
    /\ UNCHANGED <<order, initializing, running, finalizing, timeline, logs, calls,
                   initPass, failedAt, raises>>
    /\ UNCHANGED <<scope, regs>>

\* finalize(), line 45 raising: nothing catches it, line 46 is not reached.
finalize_raise ==
    /\ stack # <<>> /\ exc # "none"
    /\ Top.op = "finalize"
    /\ stack' = Pop
    /\ exc' = ExcAfterPop(exc)
    /\ finPass' = "failed"
    /\ ret' = Returned("finalize", "pass", exc, Top.pre)
    /\ UNCHANGED <<order, flags, timeline, logs, calls, initPass, failedAt, raises>>
    /\ UNCHANGED <<scope, regs>>

\* ------------------------------------------------------- add_recurring_event
\* A registration that initializes the new event at once.
add_recurring_event_initializing(event, interval) ==
    /\ CanCall
    /\ Len(order) < MaxEvents
    /\ register_accepts(interval)
    /\ calls' = Called("add_recurring_event")
    /\ next' = register_recurring(interval)
    /\ order' = Append(order, [kind |-> event.kind, interval |-> interval])
    /\ regs' = Append(regs, [pass |-> initPass, fin |-> finPass, time |-> time])
    /\ initLog' = Append(initLog, Len(order) + 1)
    /\ ret' = Returned("add_recurring_event", "pass", "ok",
                       [Snapshot EXCEPT !.arg = interval])
    /\ UNCHANGED <<flags, time, stack, exc, finLog, dueLog, runLog, passes, scope>>

\* A registration that records the pair before the timeline has taken it.
add_recurring_event_append_first(event, interval) ==
    /\ CanCall
    /\ Len(order) < MaxEvents
    /\ calls' = Called("add_recurring_event")
    /\ order' = Append(order, [kind |-> event.kind, interval |-> interval])
    /\ regs' = Append(regs, [pass |-> initPass, fin |-> finPass, time |-> time])
    /\ IF register_accepts(interval)
       THEN /\ next' = register_recurring(interval)
            /\ ret' = Returned("add_recurring_event", "pass", "ok",
                               [Snapshot EXCEPT !.arg = interval])
            /\ UNCHANGED exc
       ELSE /\ exc' = IF stack = <<>> THEN "none" ELSE "Exception"
            /\ ret' = Returned("add_recurring_event", "pass", "Exception",
                               [Snapshot EXCEPT !.arg = interval])
            /\ UNCHANGED next
    /\ UNCHANGED <<flags, time, stack, logs, passes, scope>>

\* add_recurring_event, lines 48-50: the timeline takes the event first; when it
\* rejects the interval its error leaves the call before line 50 is reached.
add_recurring_event(event, interval) ==
    /\ CanCall
    /\ Len(order) < MaxEvents
    /\ calls' = Called("add_recurring_event")
    /\ IF register_accepts(interval)
       THEN /\ next' = register_recurring(interval)
            /\ order' = Append(order, [kind |-> event.kind, interval |-> interval])
            /\ regs' = Append(regs, [pass |-> initPass, fin |-> finPass,
                                     time |-> time])
            /\ ret' = Returned("add_recurring_event", "pass", "ok",
                               [Snapshot EXCEPT !.arg = interval])
            /\ UNCHANGED exc
       ELSE /\ exc' = IF stack = <<>> THEN "none" ELSE "Exception"
            /\ ret' = Returned("add_recurring_event", "pass", "Exception",
                               [Snapshot EXCEPT !.arg = interval])
            /\ UNCHANGED <<next, order, regs>>
    /\ UNCHANGED <<flags, time, stack, logs, passes, scope>>

\* -------------------------------------------------------------------- events
\* An event operation returns: the manager method that called it goes on.
event_return ==
    /\ stack # <<>> /\ exc = "none"
    /\ Top.op = "event"
    /\ LET caller == stack[Len(stack) - 1]
           resumed == CASE caller.op = "initialize" ->
                               [caller EXCEPT !.pc = "loop", !.i = @ + 1]
                        [] caller.op = "finalize" ->
                               [caller EXCEPT !.pc = "loop", !.i = @ - 1]
                        [] OTHER -> [caller EXCEPT !.pc = "loop"]
       IN  stack' = Append(SubSeq(stack, 1, Len(stack) - 2), resumed)
    /\ ret' = NoRet
    /\ UNCHANGED <<order, flags, timeline, exc, logs, calls, passes>>
    /\ UNCHANGED <<scope, regs>>

\* An event operation raises.  The manager tells AttributeError from other
\* errors only around event.run, so only a run operation raises it here.
event_raise(error) ==
    /\ stack # <<>> /\ exc = "none"
    /\ Top.op = "event"
    /\ Len(calls) + raises < MaxChoices
    /\ error = "AttributeError" => Top.pc = "run"
    /\ stack' = Pop
    /\ exc' = error
    /\ raises' = raises + 1
    /\ ret' = NoRet
    /\ UNCHANGED <<order, flags, timeline, logs, calls, initPass, finPass, failedAt>>
    /\ UNCHANGED <<scope, regs>>

\* A manager call made by an event operation raised: the operation handles it
\* and goes on, or lets it through.
event_catch ==
    /\ stack # <<>> /\ exc # "none"
    /\ Top.op = "event"
    /\ exc' = "none"
    /\ ret' = NoRet
    /\ UNCHANGED <<order, flags, timeline, stack, logs, calls, passes>>
    /\ UNCHANGED <<scope, regs>>

event_propagate ==
    /\ stack # <<>> /\ exc # "none"
    /\ Top.op = "event"
    /\ stack' = Pop
    /\ ret' = NoRet
    /\ UNCHANGED <<order, flags, timeline, exc, logs, calls, passes>>
    /\ UNCHANGED <<scope, regs>>

\* ------------------------------------------------------------- with block
\* The client's `with manager:` block.  It is entered and left by the client
\* only; scope remembers whether __enter__ ran the initialize pass itself
\* ("pass") or found it already started ("noop").

\* __enter__, lines 76-78: initialize(), then `return self`.
__enter__ ==
    /\ CanCall
    /\ stack = <<>> /\ scope = "out"
    /\ calls' = Called("__enter__")
    /\ IF ~initialize_guard
       THEN /\ scope' = "noop"
            /\ ret' = Returned("__enter__", "noop", "ok", Snapshot)
            /\ UNCHANGED <<initializing, stack, initPass>>
       ELSE /\ initializing' = TRUE
            /\ initPass' = "active"
            /\ stack' = <<Frame("__enter__", "init", 0, 0, 0, Snapshot),
                          Frame("initialize", "loop", 1, 0, 0, Snapshot)>>
            /\ ret' = NoRet
            /\ UNCHANGED scope
    /\ UNCHANGED <<order, initialized, running, finalizing, timeline, exc, logs,
                   finPass, failedAt, raises, regs>>

\* __enter__, line 78: initialize() returned, the block is entered.
enter_return ==
    /\ stack # <<>> /\ exc = "none"
    /\ Top.op = "__enter__"
    /\ stack' = Pop
    /\ scope' = "pass"
    /\ ret' = Returned("__enter__", "pass", "ok", Top.pre)
    /\ UNCHANGED <<order, flags, timeline, exc, logs, calls, passes, regs>>

\* __enter__, line 77: initialize() raised, the block is not entered.
enter_except ==
    /\ stack # <<>> /\ exc # "none"
    /\ Top.op = "__enter__"
    /\ stack' = Pop
    /\ exc' = ExcAfterPop(exc)
    /\ ret' = Returned("__enter__", "pass", exc, Top.pre)
    /\ UNCHANGED <<order, flags, timeline, logs, calls, passes, scope, regs>>

\* An __exit__ that swallows the error of the block.
exit_suppresses_all == TRUE

\* __exit__, lines 80-81: no return statement, so the result is None and an
\* error raised in the block is raised again when __exit__ is done.
exit_suppresses == FALSE

\* What the client sees at the end of the block.
exit_result(raised) == IF raised /\ ~exit_suppresses THEN "BodyError" ELSE "ok"

\* __exit__, lines 80-81: finalize(), whether the block returned or raised.
__exit__(raised) ==
    /\ CanCall
    /\ stack = <<>> /\ scope # "out"
    /\ calls' = Called("__exit__")
    /\ LET pre == [Snapshot EXCEPT !.arg = IF raised THEN 1 ELSE 0]
       IN  IF finalize_guard /\ finalize_idle
           THEN /\ finalizing' = TRUE
                /\ finPass' = "active"
                /\ stack' = <<Frame("__exit__", "fin", 0, 0, 0, pre),
                              Frame("finalize", "loop", Len(order), Len(order),
                                    0, pre)>>
                /\ ret' = NoRet
                /\ UNCHANGED <<initialized, scope>>
           ELSE /\ initialized' = IF finalize_guard THEN FALSE ELSE initialized
                /\ scope' = "out"
                /\ ret' = Returned("__exit__", scope, exit_result(raised), pre)
                /\ UNCHANGED <<finalizing, stack, finPass>>
    /\ UNCHANGED <<order, initializing, running, timeline, exc, logs, initPass,
                   failedAt, raises, regs>>

\* __exit__, line 81: finalize() returned, the block is left.
exit_return ==
    /\ stack # <<>> /\ exc = "none"
    /\ Top.op = "__exit__"
    /\ stack' = Pop
    /\ scope' = "out"
    /\ ret' = Returned("__exit__", scope, exit_result(Top.pre.arg = 1), Top.pre)
    /\ UNCHANGED <<order, flags, timeline, exc, logs, calls, passes, regs>>

\* __exit__, line 81: finalize() raised; its error is the one that leaves.
exit_except ==
    /\ stack # <<>> /\ exc # "none"
    /\ Top.op = "__exit__"
    /\ stack' = Pop
    /\ exc' = ExcAfterPop(exc)
    /\ scope' = "out"
    /\ ret' = Returned("__exit__", scope, exc, Top.pre)
    /\ UNCHANGED <<order, flags, timeline, logs, calls, passes, regs>>

Next ==
    \/ initialize
    \/ initialize_loop
    \/ initialize_except
    \/ \E stop_time \in StopTimes : run(stop_time)
    \/ run_guard
    \/ run_loop
    \/ run_except
    \/ finalize
    \/ finalize_loop
    \/ finalize_raise
    \/ \E event \in AddedEvents : \E interval \in {event.interval, 0} :
            add_recurring_event(event, interval)
    \/ event_return
    \/ \E error \in Errors : event_raise(error)
    \/ event_catch
    \/ event_propagate
    \/ __enter__
    \/ enter_return
    \/ enter_except
    \/ \E raised \in BOOLEAN : __exit__(raised)
    \/ exit_return
    \/ exit_except

Spec == Init /\ [][Next]_vars

\* ------------------------------------------------------ the timeline alone
\* The manager driven by run() and add_recurring_event() only, with no failing
\* event, over longer stretches of simulated time: what is dispatched is what
\* the timeline yields.
MaxStop == 6

TimelineEvents == {[kind |-> "both", interval |-> 2],
                   [kind |-> "both", interval |-> 3]}

TimelineInit ==
    /\ order \in SeqsUpTo(TimelineEvents, MaxInit)
    /\ initializing = FALSE /\ initialized = FALSE
    /\ running = FALSE /\ finalizing = FALSE
    /\ time = 0
    /\ next = Timeline_init(order)
    /\ stack = <<>> /\ exc = "none"
    /\ initLog = <<>> /\ finLog = <<>> /\ dueLog = <<>> /\ runLog = <<>>
    /\ calls = <<>>
    /\ initPass = "none" /\ finPass = "none" /\ failedAt = 0 /\ raises = 0
    /\ scope = "out"
    /\ regs = [k \in 1..Len(order) |-> [pass |-> "none", fin |-> "none", time |-> 0]]
    /\ ret = NoRet

TimelineNext ==
    \/ \E stop_time \in 1..MaxStop : run(stop_time)
    \/ initialize_loop
    \/ run_guard
    \/ run_loop
    \/ run_except
    \/ event_return
    \/ \E event \in AddedEvents : \E interval \in {event.interval, 0} :
            add_recurring_event(event, interval)
    \/ event_catch
    \/ event_propagate

SpecTimeline == TimelineInit /\ [][TimelineNext]_vars

\* ------------------------------------------------------------------- claims
\* The calls of one due occurrence: the run/update calls run() made for it.
CallsOf(occ) ==
    LET OfOcc(r) == r.occ = occ
    IN  SelectSeq(runLog, OfOcc)

\* s is the first entries of t.
IsPrefix(s, t) == Len(s) <= Len(t) /\ s = SubSeq(t, 1, Len(s))

\* C1: an initialize() call on a fresh manager that returns normally has invoked
\* the initialize operation of every entry of the registration list exactly
\* once, in registration order, and has set the initialized flag.
C1_InitializeInOrder ==
    (ret.op = "initialize" /\ ~ret.pre.initializing /\ ret.res = "ok")
        => /\ initLog = Ident(Len(order))
           /\ initialized
           /\ initPass = "done"

C1_Witness ==
    /\ ret.op = "initialize" /\ ret.kind = "pass" /\ ret.res = "ok"
    /\ Len(order) >= 2
    /\ stack = <<>>

\* C2: a finalize() call made on an initialized manager that returns normally
\* has invoked the finalize operation of every entry of the list (as it was at
\* the call) exactly once, in reverse registration order, and leaves the
\* initialized flag false.
C2_FinalizeInReverse ==
    (ret.op = "finalize" /\ ret.pre.initialized /\ ~ret.pre.finalizing
        /\ ret.res = "ok")
        => /\ finLog = Reverse(Ident(ret.pre.nOrder))
           /\ ~initialized

C2_Witness ==
    /\ ret.op = "finalize" /\ ret.kind = "pass" /\ ret.res = "ok"
    /\ ret.pre.nOrder >= 2
    /\ stack = <<>>

\* C3: no entry's initialize operation and no entry's finalize operation is ever
\* invoked twice; an initialize() call made when initialize() was called before
\* (re-entrant calls included) invokes nothing, and so does a finalize() call
\* made when a finalize() walk was started before.
C3_Idempotent ==
    /\ NoDup(initLog)
    /\ NoDup(finLog)
    /\ (ret.op = "initialize" /\ ret.pre.initializing)
          => Len(initLog) = ret.pre.nInit
    /\ (ret.op = "finalize" /\ ret.pre.finalizing)
          => Len(finLog) = ret.pre.nFin

C3_Witness ==
    /\ stack = <<>>
    /\ Len(calls) = 4
    /\ calls[1].op = "initialize" /\ calls[2].op = "initialize"
    /\ calls[3].op = "finalize" /\ calls[4].op = "finalize"
    /\ Len(initLog) >= 2 /\ Len(finLog) >= 2

\* C4: when run() returns with the error of a dispatched event, the running
\* flag is false.
C4_RunningClearedOnError ==
    (ret.op = "run" /\ ret.kind = "pass" /\ ret.res # "ok") => ~running

\* C5: once the initialize operation of entry k has aborted the pass, exactly
\* the entries 1..k have been called, in order, the initialized flag is false
\* and the initializing flag is true, for ever after; the initialize() call
\* returns with the error, and every later initialize() call invokes nothing.
C5_FailedInitializeSticks ==
    /\ failedAt > 0
          => /\ initLog = Ident(failedAt)
             /\ ~initialized
             /\ initializing
             /\ initPass = "failed"
    /\ (ret.op = "initialize" /\ ret.kind = "pass" /\ failedAt > 0)
          => ret.res # "ok"
    /\ (ret.op = "initialize" /\ ret.pre.initPass = "failed")
          => ret.kind = "noop" /\ Len(initLog) = ret.pre.nInit

C5_Witness ==
    /\ failedAt = 2 /\ Len(order) = 3
    /\ ret.op = "initialize" /\ ret.kind = "noop" /\ ret.pre.initPass = "failed"
    /\ stack = <<>>

\* C6: a run() call made from inside an event's run or update operation returns
\* normally without dispatching anything: no occurrence is produced, no run or
\* update call is made, the clock does not move, and the outer run() is still
\* waiting for the event operation that made the call.
C6_NestedRunIsNoop ==
    (ret.op = "run" /\ ret.pre.from \in {"run", "update"})
        => /\ ret.res = "ok"
           /\ Len(dueLog) = ret.pre.nDue
           /\ Len(runLog) = ret.pre.nRun
           /\ time = ret.pre.time
           /\ running
           /\ Len(stack) = ret.pre.depth
           /\ Top.op = "event"
           /\ stack[Len(stack) - 1].op = "run"
           /\ stack[Len(stack) - 1].pc \in {"call_run", "call_update"}

C6_Witness ==
    /\ ret.op = "run" /\ ret.pre.from \in {"run", "update"}
    /\ \A stop_time \in StopTimes : NextDue(stop_time) # 0

\* C7: every due occurrence gets exactly one call, with the occurrence's fire
\* time as argument: run if the event exposes run, update otherwise.
C7_OneCallPerOccurrence ==
    \A occ \in 1..Len(dueLog) :
        LET d == dueLog[occ]
        IN  CallsOf(occ) =
                <<[occ |-> occ, i |-> d.i,
                   meth |-> IF HasRun(order[d.i].kind) THEN "run" ELSE "update",
                   t |-> d.t]>>

\* C8: an error that leaves the run operation of an event leaves run() in the
\* next step, with no further run or update call.
C8_RunErrorPropagates ==
    [][(exc # "none" /\ stack # <<>> /\ Top.op = "run" /\ Top.pc = "call_run")
          => (stack' = Pop /\ runLog' = runLog)]_vars

NestedFinalizeSince(n) ==
    \E k \in (n + 2)..Len(calls) : calls[k].op = "finalize" /\ calls[k].depth > 0

C10_ReinitializeAfterFinalize ==
    (ret.op = "initialize" /\ ret.pre.finPass = "done" /\ ret.res = "ok")
        => initialized /\ Len(initLog) > ret.pre.nInit

\* C10 amended: after a completed finalize() the initialized flag is false for
\* good, and an initialize() call made then invokes nothing.
C10_NoReinitialize ==
    /\ finPass = "done" => ~initialized /\ initializing
    /\ (ret.op = "initialize" /\ ret.pre.finPass = "done")
          => /\ ret.kind = "noop"
             /\ Len(initLog) = ret.pre.nInit
             /\ ~initialized

C10_Witness ==
    /\ ret.op = "initialize" /\ ret.pre.finPass = "done"
    /\ ret.pre.nOrder >= 1 /\ Len(initLog) = ret.pre.nOrder
    /\ stack = <<>>

\* C11 as stated: whenever a block that was entered by an __enter__ which ran
\* the initialize pass to completion is left, every registered event has been
\* finalized exactly once, in reverse registration order, and an error raised
\* by the block is the error that reaches the client.
C11_ScopeFinalizesAll ==
    (ret.op = "__exit__" /\ ret.kind = "pass") =>
        /\ finLog = Reverse(Ident(Len(order)))
        /\ ret.pre.arg = 1 => ret.res = "BodyError"

\* C11 amended: leaving the block calls finalize() on every exit path.  When
\* the manager is then initialized, no finalize walk has been started before
\* and no event's finalize fails, every event registered at that moment has
\* been finalized exactly once in reverse registration order, and initialized
\* is cleared; a failing finalize aborts the walk and its error replaces the
\* block's.  Otherwise the block's own outcome reaches the client.
C11_ScopeAmended ==
    ret.op = "__exit__" =>
        /\ scope = "out"
        /\ ret.res \in Errors =>
              /\ ret.pre.initialized /\ ~ret.pre.finalizing
              /\ finPass = "failed"
              /\ Len(finLog) <= ret.pre.nOrder
        /\ ret.res \notin Errors =>
              /\ ~initialized
              /\ ret.res = IF ret.pre.arg = 1 THEN "BodyError" ELSE "ok"
              /\ (ret.pre.initialized /\ ~ret.pre.finalizing) =>
                    finLog = Reverse(Ident(ret.pre.nOrder))

\* A block entered by a full initialize pass over two or more events is left
\* by an error of its body: all are finalized and the error goes on.
C11_Witness ==
    /\ ret.op = "__exit__" /\ ret.kind = "pass"
    /\ ret.pre.arg = 1 /\ ret.res = "BodyError"
    /\ ret.pre.initialized /\ ~ret.pre.finalizing
    /\ Len(order) >= 2
    /\ finLog = Reverse(Ident(Len(order)))

\* Positions registered once the initialize pass had completed.
AddedLate == {k \in 1..Len(order) : regs[k].pass = "done"}

\* Positions registered before any finalize walk was started.
BeforeWalk == {k \in 1..Len(order) : regs[k].fin = "none"}

\* C12: an accepted add_recurring_event, whenever it is made, has put the
\* event on the timeline and the pair at the end of the registration list and
\* has invoked no initialize; an event added after the initialize pass has
\* completed is never initialized, every due occurrence of it is dispatched
\* (a run that ends normally leaves none at or before its stop time), and a
\* finalize walk started after it was added finalizes the last added first.
C12_AddedLateEvent ==
    /\ (ret.op = "add_recurring_event" /\ ret.res = "ok") =>
          /\ Len(order) = ret.pre.nOrder + 1
          /\ order[Len(order)].interval = ret.pre.arg
          /\ Len(next) = Len(order)
          /\ next[Len(next)] = time + ret.pre.arg
          /\ Len(initLog) = ret.pre.nInit
    /\ \A k \in AddedLate :
          /\ \A j \in 1..Len(initLog) : initLog[j] # k
          /\ \A j \in 1..Len(dueLog) : dueLog[j].i = k =>
                \E c \in 1..Len(runLog) : runLog[c].occ = j /\ runLog[c].i = k
    /\ (ret.op = "run" /\ ret.kind = "pass" /\ ret.res = "ok") =>
          \A k \in 1..Len(order) : next[k] > ret.pre.arg
    /\ finLog # <<>> => finLog[1] = Cardinality(BeforeWalk)
    /\ finPass = "done" => \A k \in BeforeWalk :
          Cardinality({j \in 1..Len(finLog) : finLog[j] = k}) = 1

\* An event added after the completed initialize pass has been dispatched by
\* a later run and finalized first by a later finalize, and was never
\* initialized.
C12_Witness ==
    /\ finPass = "done"
    /\ Len(order) >= 2
    /\ Len(order) \in AddedLate
    /\ finLog # <<>> /\ finLog[1] = Len(order)
    /\ \E j \in 1..Len(dueLog) : dueLog[j].i = Len(order)
    /\ \A j \in 1..Len(initLog) : initLog[j] # Len(order)

\* The manager frames of the call stack.
ManagerFrames(op) == {k \in 1..Len(stack) : stack[k].op = op}

\* C13: a run() made when no initialize pass was ever started runs the whole
\* pass first: when its initialize() has returned, every registered event has
\* been initialized once in registration order and initialized is set, and
\* while the call draws due events from the timeline the pass is complete.  A
\* run() made when the pass had been started invokes no event's initialize.
C13_RunInitializesFirst ==
    /\ \A k \in ManagerFrames("run") :
          LET f == stack[k]
          IN  IF f.pre.initializing
              THEN f.pc # "init" /\ Len(initLog) = f.pre.nInit
              ELSE IF f.pc = "init"
                   THEN (k = Len(stack) /\ exc = "none") =>
                            /\ initialized /\ initPass = "done"
                            /\ initLog = Ident(Len(order))
                   ELSE /\ initPass = "done"
                        /\ initLog = Ident(Len(initLog))
                        /\ Len(initLog) >= f.pre.nOrder
    /\ (ret.op = "run" /\ ret.pre.initializing) => Len(initLog) = ret.pre.nInit
    /\ (ret.op = "run" /\ ~ret.pre.initializing /\ ret.res = "ok") =>
          /\ initPass = "done"
          /\ initLog = Ident(Len(initLog)) /\ Len(initLog) >= ret.pre.nOrder

\* A run() on a fresh manager with two events has initialized both and is
\* dispatching its first due event.
C13_Witness ==
    /\ stack # <<>>
    /\ stack[1].op = "run" /\ ~stack[1].pre.initializing
    /\ stack[1].pc \in {"call_run", "call_update"}
    /\ stack[1].pre.nOrder >= 2
    /\ initLog = Ident(Len(order))
    /\ Len(dueLog) = 1

\* The four lifecycle flags are as they were when the returned call was made.
FlagsAsBefore ==
    /\ initializing = ret.pre.initializing
    /\ initialized = ret.pre.initialized
    /\ running = ret.pre.running
    /\ finalizing = ret.pre.finalizing

\* C14: a finalize() made while initialized is false (before any initialize,
\* from inside an event's initialize during the pass, or after a failed
\* initialize) returns at once, has invoked no event's finalize and has changed
\* none of the four flags.
C14_FinalizeNoopUnlessInitialized ==
    /\ (ret.op = "finalize" /\ ~ret.pre.initialized) =>
          /\ ret.kind = "noop" /\ ret.res = "ok"
          /\ Len(finLog) = ret.pre.nFin
          /\ FlagsAsBefore
          /\ Len(calls) = ret.pre.nCalls + 1
    /\ \A k \in ManagerFrames("finalize") : stack[k].pre.initialized

\* finalize() called from inside an event's initialize, during the pass, has
\* just returned without effect.
C14_Witness ==
    /\ ret.op = "finalize" /\ ret.pre.from = "initialize"
    /\ ret.pre.initPass = "active" /\ ~ret.pre.initialized
    /\ Len(order) >= 1
    /\ finLog = <<>> /\ ~finalizing /\ initializing

\* The due occurrences of the event at position k, in the order yielded.
DueOf(k) == {j \in 1..Len(dueLog) : dueLog[j].i = k}

\* The events A (interval 2) and B (interval 3), registered in this order.
TwoEvents == <<[kind |-> "both", interval |-> 2], [kind |-> "both", interval |-> 3]>>

\* C15: what iterate_until(stop) yields.  Each event's occurrences are its
\* registration time plus 1, 2, 3, ... intervals, none skipped, and the next one
\* is scheduled; fire times never decrease and equal fire times come in
\* registration order; the clock is the last fire time (the start time while
\* nothing has fired); an occurrence is yielded only at or before the stop
\* time, a run that ends normally leaves none at or before it, and leaves the
\* clock alone when nothing was due.  For
\* A and B from time 0, stop 6 yields A@2, B@3, A@4, A@6, B@6, clock at 6.
C15_DueEventOrder ==
    /\ \A k \in 1..Len(order) :
          /\ \A j \in DueOf(k) :
                dueLog[j].t = regs[k].time + order[k].interval *
                                Cardinality({h \in DueOf(k) : h <= j})
          /\ next[k] = regs[k].time + order[k].interval * (Cardinality(DueOf(k)) + 1)
    /\ \A h, j \in 1..Len(dueLog) : h < j =>
          \/ dueLog[h].t < dueLog[j].t
          \/ dueLog[h].t = dueLog[j].t /\ dueLog[h].i < dueLog[j].i
    /\ time = IF dueLog = <<>> THEN 0 ELSE dueLog[Len(dueLog)].t
    /\ \A k \in ManagerFrames("run") :
          stack[k].pc \in {"call_run", "call_update"} =>
              dueLog[Len(dueLog)].t <= stack[k].stop
    /\ (ret.op = "run" /\ ret.kind = "pass" /\ ret.res = "ok") =>
          /\ \A k \in 1..Len(order) : next[k] > ret.pre.arg
          /\ ret.pre.initializing =>
                /\ \A j \in (ret.pre.nDue + 1)..Len(dueLog) :
                      dueLog[j].t <= ret.pre.arg
                /\ Len(dueLog) = ret.pre.nDue => time = ret.pre.time
          /\ (order = TwoEvents /\ ret.pre.nDue = 0 /\ ret.pre.arg = 6) =>
                /\ dueLog = <<[i |-> 1, t |-> 2], [i |-> 2, t |-> 3], [i |-> 1, t |-> 4],
                             [i |-> 1, t |-> 6], [i |-> 2, t |-> 6]>>
                /\ time = 6

\* run(6) over A and B from time 0 has returned after the five occurrences.
C15_Witness ==
    /\ ret.op = "run" /\ ret.kind = "pass" /\ ret.res = "ok"
    /\ order = TwoEvents /\ ret.pre.arg = 6 /\ ret.pre.time = 0
    /\ Len(dueLog) = 5 /\ dueLog[4].t = 6 /\ dueLog[5].t = 6
    /\ time = 6

\* Positions registered after the clock had been advanced.
AddedAfterClockMoved == {k \in 1..Len(order) : regs[k].time > 0}

\* C16: an event added once run() has advanced the clock to T is scheduled
\* from T: the accepted call leaves its first fire time at T + interval and the
\* clock alone, and every later dispatch of it is at T + interval or later, one
\* per interval elapsed since T, never for an occurrence counted from time 0.
C16_AddedEventScheduledFromNow ==
    /\ (ret.op = "add_recurring_event" /\ ret.res = "ok") =>
          /\ time = ret.pre.time
          /\ regs[Len(regs)].time = time
          /\ next[Len(next)] = time + ret.pre.arg
    /\ \A k \in AddedAfterClockMoved :
          LET T == regs[k].time
          IN  /\ \A c \in 1..Len(runLog) : runLog[c].i = k =>
                    /\ runLog[c].t >= T + order[k].interval
                    /\ runLog[c].t = dueLog[runLog[c].occ].t
              /\ \A j \in DueOf(k) : dueLog[j].t >= T + order[k].interval
              /\ Cardinality(DueOf(k)) * order[k].interval <= time - T
              /\ next[k] > T

\* An event added at time T >= 2 has been dispatched by a following run, first
\* at T + interval.
C16_Witness ==
    \E k \in AddedAfterClockMoved :
        /\ regs[k].time >= 2
        /\ \E c \in 1..Len(runLog) :
              /\ runLog[c].i = k /\ runLog[c].meth = "run"
              /\ runLog[c].t = regs[k].time + order[k].interval
        /\ ret.op = "run" /\ ret.res = "ok" /\ ret.pre.time = regs[k].time

\* C17 as stated: an event's run or update operation is called only in a step
\* taken while the initialized flag is true.
C17_DispatchOnlyWhileInitialized ==
    [][runLog' # runLog => initialized]_vars

\* C18: once a finalize walk has been aborted by a failing event, no step
\* invokes another event's finalize and the walk is never started again; a
\* later finalize(), also the one made on leaving a with block, returns at
\* once with initialized false.  The events the aborted walk skipped are
\* therefore never finalized.
C18_AbortedFinalizeIsFinal ==
    [][finPass = "failed" =>
          /\ finPass' = "failed" /\ finalizing'
          /\ finLog' = finLog
          /\ ManagerFrames("finalize") = {}
          /\ (ret'.op \in {"finalize", "__exit__"} /\ ret' # ret) =>
                /\ ret'.pre.finPass = "failed" => ~initialized'
                /\ ret'.op = "finalize" /\ ret'.pre.finPass = "failed"
                      => ret'.kind = "noop"]_vars

\* A second finalize() after a walk that failed before reaching the first
\* registered event has just cleared initialized; the skipped events are not
\* in the finalize log.
C18_Witness ==
    /\ ret.op = "finalize" /\ ret.kind = "noop"
    /\ ret.pre.finPass = "failed" /\ ret.pre.initialized
    /\ ~initialized
    /\ finLog # <<>> /\ Len(finLog) < Len(order)
    /\ \A j \in 1..Len(finLog) : finLog[j] # 1

\* C19: whatever is called, and whether events fail or call back into the
\* manager, no step clears the initializing or the finalizing flag; a pass is
\* started only when its flag is not yet set, so each pass starts at most
\* once, and no registered entry's initialize or finalize is invoked twice.
C19_PassesStartAtMostOnce ==
    [][/\ initializing => initializing'
       /\ finalizing => finalizing'
       /\ (initPass' = "active" /\ initPass # "active") =>
             initPass = "none" /\ ~initializing
       /\ (finPass' = "active" /\ finPass # "active") =>
             finPass = "none" /\ ~finalizing
       /\ initPass # "none" => initPass' # "none" /\ initializing
       /\ finPass # "none" => finPass' # "none" /\ finalizing
       /\ NoDup(initLog') /\ NoDup(finLog')]_vars

\* Both passes have run over two or more events and a with block has been
\* entered and left on top of explicit initialize() and finalize() calls:
\* the repeated calls found the flags set.
C19_Witness ==
    /\ initPass = "done" /\ finPass = "done"
    /\ initializing /\ finalizing
    /\ Len(order) >= 2
    /\ Len(initLog) = Len(order) /\ Len(finLog) = Len(order)
    /\ ret.op = "__exit__" /\ ret.pre.finalizing
    /\ \E c \in 1..Len(calls) : calls[c].op = "initialize"
    /\ \E c \in 1..Len(calls) : calls[c].op = "finalize"

\* C20: in every reachable state initialized implies initializing and
\* finalizing implies initializing; finalizing is set only by a call that finds
\* initialized true, hence after a completed initialize pass; an
\* add_recurring_event call, accepted or rejected, leaves the four flags as
\* they were; a registration the timeline rejects (interval not positive)
\* leaves the registration list and the schedule unchanged.
C20_FlagInvariant ==
    /\ initialized => initializing
    /\ finalizing => initializing
    /\ finalizing => initPass = "done"
    /\ \A k \in ManagerFrames("finalize") :
          stack[k].pre.initialized /\ ~stack[k].pre.finalizing
    /\ ret.op = "add_recurring_event" =>
          /\ FlagsAsBefore
          /\ (ret.res = "ok") = (ret.pre.arg > 0)
          /\ (ret.res # "ok") => Len(order) = ret.pre.nOrder
    /\ Len(next) = Len(order)
    /\ \A k \in 1..Len(order) : order[k].interval > 0

\* A registration with interval 0, made from inside an event's finalize while
\* initialized and finalizing are set, has just been rejected.
C20_Witness ==
    /\ ret.op = "add_recurring_event" /\ ret.res = "Exception"
    /\ ret.pre.arg = 0 /\ ret.pre.from = "finalize"
    /\ initializing /\ initialized /\ finalizing
    /\ Len(order) >= 1 /\ Len(order) = ret.pre.nOrder
    /\ exc = "Exception"

====
